---- MODULE Spec2Model ----
(***************************************************************************)
(* State-machine model of the market maker's order lifecycle and quoting   *)
(* coordination: AccountDataState (roxom/state.py), the private feed       *)
(* dispatcher (roxom/roxom_ws.py), FairPriceCalculator / MarketDataState    *)
(* and the MarketMaker coroutines (strategy/market_maker.py).               *)
(*                                                                         *)
(* Scheduling: all coroutines run on one asyncio event loop, so a step of  *)
(* the model is the code between two suspension points.  The REST calls of *)
(* the quoting cycle run in worker threads (asyncio.to_thread); each is a  *)
(* separate step that acts on the venue and leaves a result for gather.    *)
(* The REST calls of immediate_cleanup and OrderManager.initialize are     *)
(* plain blocking calls: they are part of their coroutine's step.          *)
(***************************************************************************)
EXTENDS Integers, Sequences, FiniteSets, TLC

VARIABLES
    mpc,                \* MarketMaker.run: "init" before initialize(), then
                        \* "run"; "failed" if initialize() raised
    is_initialized,     \* OrderManager.is_initialized
    prices,             \* MarketDataState.prices
    orders,             \* AccountDataState.orders
    order_history,      \* AccountDataState.order_history
    current_orders,     \* MarketMaker.current_orders
    shutdown_event,     \* MarketMaker.shutdown_event
    emergency_shutdown, \* MarketMaker.emergency_shutdown
    qpc,                \* trading_loop / quote_market position: "idle" between
                        \* cycles, "cancel_wait" / "place_wait" at the two
                        \* gathers, "done" once the loop has ended, "crashed"
                        \* if an exception left quote_market
    cycles,             \* quoting cycles started so far
    orders_to_cancel,   \* quote_market's local list, kept across the await
    quote_prices,       \* quote_market's locals (bid_price, ask_price)
    cancel_calls,       \* cancel_order threads of the cycle: id -> result
    place_calls,        \* place_order threads of the cycle: side -> result
    orphans,            \* place_order threads whose gather already raised: the
                        \* ids their orders will get
    epc,                \* emergency_monitor: "wait", then "cleaned" (the try
                        \* branch ran) or "failed" (the except branch ran)
    fpc,                \* private feed receive loop position
    feedCount,          \* private feed messages handled so far
    venue,              \* the venue's order book: id -> [st, by]; st is "live"
                        \* or "done", by is who placed it
    wpc,                \* BinanceWebSocketClient.start position: "connect",
                        \* "recv", "pause" (sleep after a bad message),
                        \* "backoff" (sleep before reconnecting), "done"
    wfaults,            \* public feed: connection faults and bad messages
    ppc,                \* position_polling_loop position: "poll", "wait",
                        \* "backoff", "done"
    polls,              \* position polls made so far
    current_position,   \* MarketMaker.current_position
    dispatch_log,       \* the calls the private feed made for its last message
    gateway_log         \* replies of the venue and what _make_request made
                        \* of them, latest first

vars == <<mpc, is_initialized, prices, orders, order_history, current_orders,
          shutdown_event, emergency_shutdown, qpc, cycles, orders_to_cancel,
          quote_prices, cancel_calls, place_calls, orphans, epc, fpc,
          feedCount, venue, wpc, wfaults, ppc, polls, current_position,
          dispatch_log, gateway_log>>

\* the tasks and records that only the specifications of the feeds, the
\* position polling and the gateway follow; "off": not followed
taskVars == <<wpc, wfaults, ppc, polls, current_position, dispatch_log,
              gateway_log>>

----
\* Bounds of the model.

\* external stimuli of one run: quoting-timer ticks (cycles started) plus
\* private-feed messages delivered
MaxEvents == 3

\* update_order calls applied to an account state on its own
MaxUpdates == 3

\* update_order calls made after the history has reached its limit
MaxOverflow == 2

\* the largest bid or ask of the public feed, in units of its price step
MaxPrice == 16

\* position polls of one run
MaxPolls == 3

\* connection faults and bad messages of a feed in one run
MaxFaults == 2

\* legs in one listPositions response
MaxLegs == 2

----
\* Program constants and value domains.

\* Python None in an order-id slot
NoOrder == 0
\* Python None for a missing field or price
None == "None"

HISTORY_LIMIT == 1000

PRICE_SYMBOLS == {"PAXGUSDT", "BTCUSDT"}
Sides == {"bid_id", "ask_id"}

\* order ids the venue can hand out: one restart survivor, two per cycle
OrderIds == 1..(2 * MaxEvents + 1)

Statuses == {"pendingsubmit", "submitted", "partiallyfilled", "filled",
             "cancelled", "rejected", "inactive"}
terminal_states == {"filled", "cancelled", "rejected", "inactive"}

\* the statuses the private feed reports in this model: the code reads a
\* status only through membership in terminal_states, so one non-terminal
\* status and two terminal ones stand for the rest
FeedStatuses == {"submitted", "filled", "cancelled"}

----
\* AccountDataState (roxom/state.py)

\* An order event as update_order reads it with .get(): a key the caller left
\* out reads as None.  Timestamps are not modelled.
OrderEvent(id, st, rem, exe, px) ==
    [orderId |-> id, status |-> st, remainingQty |-> rem,
     executedQty |-> exe, avgPx |-> px]

\* an update_order that merges: a field the event lacks keeps the value the
\* stored order has
OrderRecord_Merged(ev) ==
    [f \in {"status", "remainingQty", "executedQty", "avgPx"} |->
        IF ev[f] = None /\ ev.orderId \in DOMAIN orders
        THEN orders[ev.orderId][f]
        ELSE ev[f]]

\* The dict update_order stores under the order id.
OrderRecord(ev) ==
    [status |-> ev.status, remainingQty |-> ev.remainingQty,
     executedQty |-> ev.executedQty, avgPx |-> ev.avgPx]

\* previous_state.get('status', 'unknown')
previous_status(acct, id) ==
    IF id \in DOMAIN acct.orders THEN acct.orders[id].status ELSE "unknown"

history_entry(acct, ev) ==
    [orderId |-> ev.orderId,
     previousStatus |-> previous_status(acct, ev.orderId),
     newStatus |-> ev.status]

\* a trim that keeps the first 1000 entries
trim_history_KeepOldest(h) ==
    IF Len(h) > HISTORY_LIMIT THEN SubSeq(h, 1, HISTORY_LIMIT) ELSE h

\* order_history[-1000:] once the list is longer than 1000
trim_history(h) ==
    IF Len(h) > HISTORY_LIMIT
    THEN SubSeq(h, Len(h) - HISTORY_LIMIT + 1, Len(h))
    ELSE h

\* AccountDataState.update_order on acct = [orders, order_history]
update_order(acct, ev) ==
    IF ev.orderId = NoOrder
    THEN acct
    ELSE [orders |->
              [x \in DOMAIN acct.orders \cup {ev.orderId} |->
                  IF x = ev.orderId THEN OrderRecord(ev) ELSE acct.orders[x]],
          order_history |->
              trim_history(Append(acct.order_history, history_entry(acct, ev)))]

\* is_order_active returning True for every known order
is_order_active_Known(ords, id) == id \in DOMAIN ords

\* AccountDataState.is_order_active on an orders map
is_order_active(ords, id) ==
    /\ id \in DOMAIN ords
    /\ ords[id].status \notin terminal_states

\* get_active_orders returning every order
get_active_orders_All(ords) == DOMAIN ords

\* AccountDataState.get_active_orders (the ids of the view)
get_active_orders(ords) ==
    {id \in DOMAIN ords : ords[id].status \notin terminal_states}

\* AccountDataState.get_filled_orders (the ids of the view)
get_filled_orders(ords) ==
    {id \in DOMAIN ords : ords[id].status = "filled"}

\* the account state as one value
Acct == [orders |-> orders, order_history |-> order_history]

----
\* MarketDataState and FairPriceCalculator

\* a price that has not arrived yet (None); a price v is <<v>>
NoPrice == <<>>

\* the (bid, ask) ticks the public feed delivers in this model
Ticks == {<<1, 2>>}

\* MarketDataState.has_data
has_data(symbols) ==
    \A s \in symbols :
        /\ s \in DOMAIN prices
        /\ prices[s].bid # NoPrice
        /\ prices[s].ask # NoPrice

\* Prices are exact fractions <<numerator, denominator>> in lowest terms, not
\* negative, with a positive denominator; the rounding error of Python floats
\* is not modelled.

RECURSIVE gcd(_, _)
gcd(a, b) == IF b = 0 THEN a ELSE gcd(b, a % b)

\* the number n / d, d > 0
fraction(n, d) == LET g == gcd(n, d) IN <<n \div g, d \div g>>

\* the outcome of a division by zero
ZeroDivisionError == <<"ZeroDivisionError">>

\* (bid + ask) / 2 of one PriceStore entry (lines 21-22)
mid(p) == fraction(p.bid[1] + p.ask[1], 2)

\* a / b of two fractions (line 25)
divide(a, b) ==
    IF b[1] = 0 THEN ZeroDivisionError ELSE fraction(a[1] * b[2], a[2] * b[1])

\* FairPriceCalculator.get_fair_price: None, the ratio of the two mids, or
\* ZeroDivisionError
get_fair_price ==
    IF ~has_data(PRICE_SYMBOLS)
    THEN NoPrice
    ELSE divide(mid(prices["PAXGUSDT"]), mid(prices["BTCUSDT"]))

\* get_fair_price raises instead of returning
fair_price_raises == get_fair_price = ZeroDivisionError

\* Python truthiness of the fair price returned: None and 0.0 are false
fair_price_ok(fp) == fp # NoPrice /\ fp # ZeroDivisionError /\ fp[1] # 0

SPREAD_BPS == 20
\* 1 / TICK_SIZE: TICK_SIZE is 0.000001
TICKS_PER_UNIT == 1000000

\* rounding with ties going up
round_HalfUp(n, d) == (2 * n + d) \div (2 * d)

\* Python round() of the fraction n / d, n >= 0 and d > 0: the nearest
\* integer, a tie going to the even one
round(n, d) ==
    LET q == n \div d
        r == n % d
    IN  IF 2 * r < d THEN q
        ELSE IF 2 * r > d THEN q + 1
        ELSE IF q % 2 = 0 THEN q ELSE q + 1

\* fp * k for a fraction k
scaled(fp, k) == fraction(fp[1] * k[1], fp[2] * k[2])

\* fair_price -/+ spread / 2 with spread = fair_price * (SPREAD_BPS / 10000),
\* before rounding (lines 30-32)
raw_bid_price(fp) == scaled(fp, fraction(20000 - SPREAD_BPS, 20000))
raw_ask_price(fp) == scaled(fp, fraction(20000 + SPREAD_BPS, 20000))

\* price / TICK_SIZE, the price in ticks, as a fraction
in_ticks(x) ==
    LET g == gcd(TICKS_PER_UNIT, x[2])
    IN  <<x[1] * (TICKS_PER_UNIT \div g), x[2] \div g>>

\* round(price / TICK_SIZE) (lines 35-36)
ticks_of(x) == round(in_ticks(x)[1], in_ticks(x)[2])

\* round(price / TICK_SIZE) * TICK_SIZE
round_to_tick(x) == fraction(ticks_of(x), TICKS_PER_UNIT)

\* FairPriceCalculator.calculate_bid_ask_prices: (bid_price, ask_price)
calculate_bid_ask_prices(fp) ==
    <<round_to_tick(raw_bid_price(fp)), round_to_tick(raw_ask_price(fp))>>

\* quote_market's bid_price and ask_price while no cycle is running
NoQuote == <<>>

----
\* The venue and the gateway calls

ORDER_SIZE == "1.00"

\* the id the venue gives the order of a place_order request.  The venue's ids
\* are opaque to the code, so the model names them after the request: the
\* restart survivor is order 1, cycle c places bid 2c and ask 2c + 1.
PlaceId(s) == 2 * cycles + (IF s = "bid_id" THEN 0 ELSE 1)

\* the venue's book with one more live order
VenuePlace(v, id) == [x \in DOMAIN v \cup {id} |->
                         IF x \in DOMAIN v THEN v[x]
                         ELSE [st |-> "live", by |-> "coordinator"]]

\* the venue's book after one order is cancelled, filled or rejected
VenueDone(v, id) == [v EXCEPT ![id].st = "done"]

\* the venue's book after cancel-all
VenueCancelAll(v) == [x \in DOMAIN v |-> [v[x] EXCEPT !.st = "done"]]

\* the payload of a private-feed order message for order id with status st
FeedEvent(id, st) ==
    OrderEvent(id, st,
               IF st = "filled" THEN "0.00" ELSE ORDER_SIZE,
               IF st = "filled" THEN ORDER_SIZE ELSE "0.00",
               IF st \in {"filled", "partiallyfilled"} THEN "px" ELSE "0.00000000")

\* OrderManager.initialize: the REST order converted to the feed's format
RestEvent(id, v) ==
    OrderEvent(id, IF v[id].st = "live" THEN "submitted" ELSE "cancelled",
               ORDER_SIZE, "0.00", "0.00000000")

\* the update_order calls of OrderManager.initialize over the orders of the
\* response, ids being the orders not loaded yet
RECURSIVE load_orders(_, _, _)
load_orders(acct, v, ids) ==
    IF ids = {}
    THEN acct
    ELSE LET k == CHOOSE x \in ids : \A y \in ids : x <= y
         IN  load_orders(update_order(acct, RestEvent(k, v)), v, ids \ {k})

----
\* asyncio.gather over thread results ("pending", "ok" or "err")

\* the cancel gather written without return_exceptions=True
CancelReturnExceptions_Dropped == FALSE

\* return_exceptions of the cancel phase's gather
CancelReturnExceptions == TRUE
\* return_exceptions of the place phase's gather (the default)
PlaceReturnExceptions == FALSE

\* an await that does not wait for its threads
gather_ready_NoWait(results, return_exceptions) == TRUE

\* the awaiting coroutine can resume
gather_ready(results, return_exceptions) ==
    IF return_exceptions
    THEN \A r \in results : r # "pending"
    ELSE (\E r \in results : r = "err") \/ (\A r \in results : r # "pending")

\* the await raises the first exception
gather_raises(results, return_exceptions) ==
    ~return_exceptions /\ \E r \in results : r = "err"

CancelResults == {cancel_calls[id] : id \in DOMAIN cancel_calls}
PlaceResults == {place_calls[s].st : s \in Sides}

IdlePlace == [s \in Sides |-> [st |-> "idle", id |-> NoOrder]]
PendingPlace == [s \in Sides |-> [st |-> "pending", id |-> NoOrder]]
NoCalls == <<>>

----
\* MarketMaker.quote_market

\* the active-check loop over current_orders (lines 61-68)
CancelCandidate(p) == p[2] # NoOrder /\ is_order_active(orders, p[2])

build_orders_to_cancel ==
    SelectSeq(<<<<"bid_id", current_orders.bid_id>>,
                <<"ask_id", current_orders.ask_id>>>>, CancelCandidate)

\* the loop over the cancellation results (lines 85-93): every result that
\* is not an exception counts as a cancellation
apply_cancel_results(ords, calls) ==
    [x \in DOMAIN ords |->
        IF x \in DOMAIN calls /\ calls[x] \in {"ok", "refused"}
        THEN [ords[x] EXCEPT !.status = "cancelled"]
        ELSE ords[x]]

\* the events quote_market registers for a placed bid and ask
BidRegistration(id) == OrderEvent(id, "pendingsubmit", ORDER_SIZE, "0.00", None)
AskRegistration(id) == OrderEvent(id, "pendingsubmit", ORDER_SIZE, "0.00", "0.00000000")

\* quote_market without its except clause
CaughtByQuoteMarket_Missing == FALSE

\* lines 52 and 153-154: the body of quote_market is one try block whose
\* `except Exception` logs and returns
CaughtByQuoteMarket == TRUE

\* a quote_market whose every return ends trading_loop
cycle_end_LoopEnds(raised) == "crashed"

\* where trading_loop stands after a cycle ended, normally or by an exception
cycle_end(raised) ==
    IF raised /\ ~CaughtByQuoteMarket THEN "crashed" ELSE "idle"

\* lines 50-56 and 61-120: the price check, the active-check and the first
\* await of the cycle (the cancel gather, or the place gather when there is
\* nothing to cancel).  trading_loop enters it while shutdown_event is unset.
\* The quoted prices (line 58) are not part of the tracked state.
\* a trading_loop that ignores shutdown_event
loop_condition_Always == TRUE

\* trading_loop, lines 202-207: `while not self.shutdown_event.is_set()`, and
\* the break when the wait for shutdown_event returns
loop_condition == ~shutdown_event

QuoteStart ==
    /\ mpc = "run"
    /\ qpc = "idle"
    /\ loop_condition
    /\ cycles + feedCount < MaxEvents
    /\ cycles' = cycles + 1
    /\ IF fair_price_raises \/ ~fair_price_ok(get_fair_price)
       THEN /\ qpc' = cycle_end(fair_price_raises)
            /\ UNCHANGED <<orders_to_cancel, quote_prices, cancel_calls, place_calls>>
       ELSE LET otc == build_orders_to_cancel IN
            /\ quote_prices' = calculate_bid_ask_prices(get_fair_price)
            /\ IF otc # <<>>
               THEN /\ orders_to_cancel' = otc
                    /\ cancel_calls' = [id \in {otc[i][2] : i \in DOMAIN otc} |-> "pending"]
                    /\ qpc' = "cancel_wait"
                    /\ UNCHANGED place_calls
               ELSE /\ place_calls' = PendingPlace
                    /\ qpc' = "place_wait"
                    /\ UNCHANGED <<orders_to_cancel, cancel_calls>>
    /\ UNCHANGED <<mpc, is_initialized, prices, orders, order_history, current_orders,
                   shutdown_event, emergency_shutdown, orphans, epc, fpc,
                   feedCount, venue,
                   taskVars>>

\* a cancel_order thread (line 77): the request reaches the venue and succeeds
ThreadCancelOk(id) ==
    /\ qpc = "cancel_wait"
    /\ id \in DOMAIN cancel_calls
    /\ cancel_calls[id] = "pending"
    /\ cancel_calls' = [cancel_calls EXCEPT ![id] = "ok"]
    /\ venue' = VenueDone(venue, id)
    /\ UNCHANGED <<mpc, is_initialized, prices, orders, order_history, current_orders,
                   shutdown_event, emergency_shutdown, qpc, cycles,
                   orders_to_cancel, quote_prices, place_calls, orphans, epc, fpc, feedCount,
                   taskVars>>

\* a cancel_order thread: _make_request raises (transport fault or error body)
ThreadCancelErr(id) ==
    /\ qpc = "cancel_wait"
    /\ id \in DOMAIN cancel_calls
    /\ cancel_calls[id] = "pending"
    /\ cancel_calls' = [cancel_calls EXCEPT ![id] = "err"]
    /\ UNCHANGED <<mpc, is_initialized, prices, orders, order_history, current_orders,
                   shutdown_event, emergency_shutdown, qpc, cycles,
                   orders_to_cancel, quote_prices, place_calls, orphans, epc, fpc, feedCount,
                   venue,
                   taskVars>>

\* a cancel_order thread: the venue answers 200 with an error body, which
\* _make_request returns; the order stays live at the venue
ThreadCancelRefused(id) ==
    /\ qpc = "cancel_wait"
    /\ id \in DOMAIN cancel_calls
    /\ cancel_calls[id] = "pending"
    /\ cancel_calls' = [cancel_calls EXCEPT ![id] = "refused"]
    /\ UNCHANGED <<mpc, is_initialized, prices, orders, order_history, current_orders,
                   shutdown_event, emergency_shutdown, qpc, cycles,
                   orders_to_cancel, quote_prices, place_calls, orphans, epc, fpc, feedCount,
                   venue,
                   taskVars>>

\* lines 81-120: the cancel gather returns, the results are processed and
\* the place gather is awaited; the results stay in the coroutine's frame
\* until the cycle ends
QuoteAfterCancel ==
    /\ qpc = "cancel_wait"
    /\ gather_ready(CancelResults, CancelReturnExceptions)
    /\ IF gather_raises(CancelResults, CancelReturnExceptions)
       THEN /\ qpc' = cycle_end(TRUE)
            /\ orders_to_cancel' = <<>>
            /\ quote_prices' = NoQuote
            /\ cancel_calls' = NoCalls
            /\ UNCHANGED <<orders, place_calls>>
       ELSE /\ orders' = apply_cancel_results(orders, cancel_calls)
            /\ place_calls' = PendingPlace
            /\ qpc' = "place_wait"
            /\ UNCHANGED <<orders_to_cancel, quote_prices, cancel_calls>>
    /\ UNCHANGED <<mpc, is_initialized, prices, order_history, current_orders, shutdown_event,
                   emergency_shutdown, cycles, orphans, epc, fpc, feedCount,
                   venue,
                   taskVars>>

\* a place_order thread (lines 98-118): the venue accepts the order
ThreadPlaceOk(s) ==
    /\ place_calls[s].st = "pending"
    /\ place_calls' = [place_calls EXCEPT ![s] = [st |-> "ok", id |-> PlaceId(s)]]
    /\ venue' = VenuePlace(venue, PlaceId(s))
    /\ UNCHANGED <<mpc, is_initialized, prices, orders, order_history, current_orders,
                   shutdown_event, emergency_shutdown, qpc, cycles,
                   orders_to_cancel, quote_prices, cancel_calls, orphans, epc, fpc, feedCount,
                   taskVars>>

\* a place_order thread: _make_request raises
ThreadPlaceErr(s) ==
    /\ place_calls[s].st = "pending"
    /\ place_calls' = [place_calls EXCEPT ![s] = [st |-> "err", id |-> NoOrder]]
    /\ UNCHANGED <<mpc, is_initialized, prices, orders, order_history, current_orders,
                   shutdown_event, emergency_shutdown, qpc, cycles,
                   orders_to_cancel, quote_prices, cancel_calls, orphans, epc, fpc, feedCount,
                   venue,
                   taskVars>>

\* a place_order thread: the venue answers 200 with a body that has no
\* data.orderId (an error body); no order is placed
ThreadPlaceMalformed(s) ==
    /\ place_calls[s].st = "pending"
    /\ place_calls' = [place_calls EXCEPT ![s] = [st |-> "bad", id |-> NoOrder]]
    /\ UNCHANGED <<mpc, is_initialized, prices, orders, order_history, current_orders,
                   shutdown_event, emergency_shutdown, qpc, cycles,
                   orders_to_cancel, quote_prices, cancel_calls, orphans, epc, fpc, feedCount,
                   venue,
                   taskVars>>

\* lines 122-134 and 136-149: what is recorded for each side once the place
\* gather has returned; result['data']['orderId'] raises on a malformed
\* result and ends the cycle there, the bid being handled before the ask
BidRecorded == place_calls["bid_id"].st = "ok"
AskRecorded == BidRecorded /\ place_calls["ask_id"].st = "ok"

after_place_slots ==
    [bid_id |-> IF BidRecorded THEN place_calls["bid_id"].id
                ELSE current_orders.bid_id,
     ask_id |-> IF AskRecorded THEN place_calls["ask_id"].id
                ELSE current_orders.ask_id]

\* a placement that writes the slots and leaves the registration to a later
\* step
after_place_acct_Deferred == Acct

after_place_acct ==
    LET a1 == IF BidRecorded
              THEN update_order(Acct, BidRegistration(place_calls["bid_id"].id))
              ELSE Acct
    IN  IF AskRecorded
        THEN update_order(a1, AskRegistration(place_calls["ask_id"].id))
        ELSE a1

\* the place phase ends in an exception: the gather raised, or a result
\* lacks data.orderId
place_phase_raises ==
    \/ gather_raises(PlaceResults, PlaceReturnExceptions)
    \/ \E s \in Sides : place_calls[s].st = "bad"

\* lines 120-154: the place gather returns or raises; the cycle ends
QuoteAfterPlace ==
    /\ qpc = "place_wait"
    /\ gather_ready(PlaceResults, PlaceReturnExceptions)
    /\ IF gather_raises(PlaceResults, PlaceReturnExceptions)
       THEN /\ UNCHANGED <<current_orders, orders, order_history>>
            /\ orphans' = orphans
                   \cup {PlaceId(s) : s \in {x \in Sides : place_calls[x].st = "pending"}}
       ELSE /\ current_orders' = after_place_slots
            /\ orders' = after_place_acct.orders
            /\ order_history' = after_place_acct.order_history
            /\ UNCHANGED orphans
    /\ place_calls' = IdlePlace
    /\ orders_to_cancel' = <<>>
    /\ quote_prices' = NoQuote
    /\ cancel_calls' = NoCalls
    /\ qpc' = cycle_end(place_phase_raises)
    /\ UNCHANGED <<mpc, is_initialized, prices, shutdown_event, emergency_shutdown, cycles,
                   epc, fpc, feedCount, venue,
                   taskVars>>

\* a place_order thread that outlives its cycle: the venue accepts the order
OrphanPlaceOk(id) ==
    /\ id \in orphans
    /\ orphans' = orphans \ {id}
    /\ venue' = VenuePlace(venue, id)
    /\ UNCHANGED <<mpc, is_initialized, prices, orders, order_history, current_orders,
                   shutdown_event, emergency_shutdown, qpc, cycles,
                   orders_to_cancel, quote_prices, cancel_calls, place_calls, epc, fpc,
                   feedCount,
                   taskVars>>

\* a place_order thread that outlives its cycle: the request fails
OrphanPlaceErr(id) ==
    /\ id \in orphans
    /\ orphans' = orphans \ {id}
    /\ UNCHANGED <<mpc, is_initialized, prices, orders, order_history, current_orders,
                   shutdown_event, emergency_shutdown, qpc, cycles,
                   orders_to_cancel, quote_prices, cancel_calls, place_calls, epc, fpc,
                   feedCount, venue,
                   taskVars>>

\* trading_loop, lines 202-207: the loop ends once shutdown_event is set
TradingLoopExit ==
    /\ mpc = "run"
    /\ qpc = "idle"
    /\ shutdown_event
    /\ qpc' = "done"
    /\ UNCHANGED <<mpc, is_initialized, prices, orders, order_history, current_orders,
                   shutdown_event, emergency_shutdown, cycles, orders_to_cancel, quote_prices,
                   cancel_calls, place_calls, orphans, epc, fpc, feedCount,
                   venue,
                   taskVars>>

----
\* MarketMaker.immediate_cleanup and emergency_monitor

\* a cleanup that deletes the active orders instead of marking them
mark_active_cancelled_Purging(ords) ==
    [x \in {y \in DOMAIN ords : ~is_order_active(ords, y)} |-> ords[x]]

\* a cleanup that marks every order cancelled, terminal ones included
mark_active_cancelled_All(ords) ==
    [x \in DOMAIN ords |-> [ords[x] EXCEPT !.status = "cancelled"]]

\* lines 224-226: every active order is marked cancelled
mark_active_cancelled(ords) ==
    [x \in DOMAIN ords |->
        IF is_order_active(ords, x)
        THEN [ords[x] EXCEPT !.status = "cancelled"]
        ELSE ords[x]]

ClearedSlots == [bid_id |-> NoOrder, ask_id |-> NoOrder]

\* lines 215-226: cancel_all_orders returns; slots cleared, orders marked
EmergencyCleanupOk ==
    /\ mpc = "run"
    /\ epc = "wait"
    /\ emergency_shutdown
    /\ venue' = VenueCancelAll(venue)
    /\ current_orders' = ClearedSlots
    /\ orders' = mark_active_cancelled(orders)
    /\ epc' = "cleaned"
    /\ UNCHANGED <<mpc, is_initialized, prices, order_history, shutdown_event,
                   emergency_shutdown, qpc, cycles, orders_to_cancel, quote_prices,
                   cancel_calls, place_calls, orphans, fpc, feedCount,
                   taskVars>>

\* lines 215-216 and 228-233: cancel_all_orders raises; only the slots are cleared
EmergencyCleanupErr ==
    /\ mpc = "run"
    /\ epc = "wait"
    /\ emergency_shutdown
    /\ current_orders' = ClearedSlots
    /\ epc' = "failed"
    /\ UNCHANGED <<mpc, is_initialized, prices, orders, order_history, shutdown_event,
                   emergency_shutdown, qpc, cycles, orders_to_cancel, quote_prices,
                   cancel_calls, place_calls, orphans, fpc, feedCount, venue,
                   taskVars>>

\* emergency_shutdown.set() by fault handling outside the coordinator: the
\* emergency signal on its own
EmergencySet ==
    /\ ~emergency_shutdown
    /\ emergency_shutdown' = TRUE
    /\ UNCHANGED <<mpc, is_initialized, prices, orders, order_history, current_orders, qpc,
                   shutdown_event, cycles, orders_to_cancel, quote_prices, cancel_calls,
                   place_calls, orphans, epc, fpc, feedCount, venue,
                   taskVars>>

\* MarketMaker.trigger_shutdown, called by main.signal_handler
TriggerShutdown ==
    /\ ~(emergency_shutdown /\ shutdown_event)
    /\ emergency_shutdown' = TRUE
    /\ shutdown_event' = TRUE
    /\ UNCHANGED <<mpc, is_initialized, prices, orders, order_history, current_orders, qpc,
                   cycles, orders_to_cancel, quote_prices, cancel_calls, place_calls, orphans,
                   epc, fpc, feedCount, venue,
                   taskVars>>

----
\* MarketMaker.initialize / OrderManager.initialize, then run() starts the
\* tasks; the private feed's start() returns at once if shutdown_event is set

\* MarketMaker.initialize without its except clause
CaughtByInitialize_Missing == FALSE

\* MarketMaker.initialize, lines 245-248: the exception OrderManager.initialize
\* re-raises is caught and logged
CaughtByInitialize == TRUE

\* where run() stands after initialize()
after_initialize(raised) ==
    IF raised /\ ~CaughtByInitialize THEN "failed" ELSE "run"

\* the private feed task as run() starts it
feed_started(m) ==
    IF m # "run" THEN "off" ELSE IF shutdown_event THEN "done" ELSE "recv"

\* get_orders returns: every order of the response goes through update_order
InitializeOk ==
    /\ mpc = "init"
    /\ LET a == load_orders(Acct, venue, DOMAIN venue) IN
           /\ orders' = a.orders
           /\ order_history' = a.order_history
    /\ is_initialized' = TRUE
    /\ mpc' = after_initialize(FALSE)
    /\ fpc' = feed_started(mpc')
    /\ UNCHANGED <<prices, current_orders, shutdown_event, emergency_shutdown,
                   qpc, cycles, orders_to_cancel, quote_prices, cancel_calls,
                   place_calls, orphans, epc, feedCount, venue,
                   taskVars>>

\* get_orders raises: logged twice, the state stays as constructed
InitializeErr ==
    /\ mpc = "init"
    /\ mpc' = after_initialize(TRUE)
    /\ fpc' = feed_started(mpc')
    /\ UNCHANGED <<is_initialized, prices, orders, order_history,
                   current_orders, shutdown_event, emergency_shutdown, qpc,
                   cycles, orders_to_cancel, quote_prices, cancel_calls,
                   place_calls, orphans, epc, feedCount, venue,
                   taskVars>>

----
\* RoxomWebSocketClient: the receive loop and _handle_order_update

\* a type 'order' message about an order the venue knows: update_order is
\* applied; the loop ends after the message if shutdown_event is set by then
FeedOrderUpdate(id, st) ==
    /\ fpc = "recv"
    /\ cycles + feedCount < MaxEvents
    /\ id \in DOMAIN venue
    /\ LET a == update_order(Acct, FeedEvent(id, st)) IN
           /\ orders' = a.orders
           /\ order_history' = a.order_history
    /\ venue' = IF st \in terminal_states THEN VenueDone(venue, id) ELSE venue
    /\ feedCount' = feedCount + 1
    /\ fpc' = IF shutdown_event THEN "done" ELSE "recv"
    /\ UNCHANGED <<mpc, is_initialized, prices, current_orders, shutdown_event,
                   emergency_shutdown, qpc, cycles, orders_to_cancel, quote_prices,
                   cancel_calls, place_calls, orphans, epc,
                   taskVars>>

\* the receive times out with shutdown_event set: the loops end
FeedExit ==
    /\ fpc = "recv"
    /\ shutdown_event
    /\ fpc' = "done"
    /\ UNCHANGED <<mpc, is_initialized, prices, orders, order_history, current_orders,
                   shutdown_event, emergency_shutdown, qpc, cycles,
                   orders_to_cancel, quote_prices, cancel_calls, place_calls, orphans, epc,
                   feedCount, venue,
                   taskVars>>

----
\* BinanceWebSocketClient._handle_message -> MarketDataState.update_price

update_price(symbol, bid, ask) ==
    IF symbol \in DOMAIN prices
    THEN [prices EXCEPT ![symbol] = [bid |-> <<bid>>, ask |-> <<ask>>]]
    ELSE prices

PriceUpdate(symbol, t) ==
    /\ mpc = "run"
    /\ ~shutdown_event
    /\ prices' = update_price(symbol, t[1], t[2])
    /\ prices' # prices
    /\ UNCHANGED <<mpc, is_initialized, orders, order_history, current_orders, shutdown_event,
                   emergency_shutdown, qpc, cycles, orders_to_cancel, quote_prices,
                   cancel_calls, place_calls, orphans, epc, fpc, feedCount,
                   venue,
                   taskVars>>

----
\* The system

\* the state after MarketMaker() is constructed; the venue may hold one order
\* that survived a restart
----
\* RoxomClient._make_request: what the caller gets for each reply of the venue

\* requests raises ConnectionError / Timeout: no response at all
Unreachable == [kind |-> "unreachable"]

\* the venue answered with an HTTP status and a JSON body
HttpReply(status, body) == [kind |-> "http", status |-> status, body |-> body]

\* a body in which the venue reports an error
ErrorBody == [success |-> FALSE, error |-> "rejected"]

\* a body that carries the result of the call
DataBody(d) == [success |-> TRUE, data |-> d]

\* line 58: raise Exception(error_msg); the response detail, if any, is
\* formatted into the message text
Raised(detail) ==
    [kind |-> "raise", type |-> "Exception",
     message |-> <<"Roxom API request failed">> \o detail]

\* line 48: return response.json()
Returned(body) == [kind |-> "return", value |-> body]

\* _make_request, lines 39-58: raise_for_status raises for a status of 400
\* and above
make_request(reply) ==
    IF reply.kind = "unreachable"
    THEN Raised(<<>>)
    ELSE IF reply.status >= 400
         THEN Raised(<<reply.body>>)
         ELSE Returned(reply.body)

\* one gateway call as the log keeps it
LogEntry(call, reply) ==
    [call |-> call, reply |-> reply, outcome |-> make_request(reply)]

\* the log with a new entry, the latest two kept
logged(call, reply) == SubSeq(<<LogEntry(call, reply)>> \o gateway_log, 1,
                              IF gateway_log = <<>> THEN 1 ELSE 2)

\* the trading primitives of RoxomClient (lines 62-98)
GatewayCalls == {"place_order", "cancel_order", "cancel_all_orders",
                 "get_orders", "get_positions"}

\* the replies of the venue to a call: none, an error status with an error
\* body, status 200 with an error body, status 200 with the result
GatewayReplies ==
    {Unreachable, HttpReply(400, ErrorBody), HttpReply(500, ErrorBody),
     HttpReply(200, ErrorBody), HttpReply(200, DataBody("result"))}

\* what a caller can tell an outcome by without reading message text: whether
\* the call returned or raised, and the class of the exception
outcome_shape(out) ==
    IF out.kind = "raise" THEN <<"raise", out.type>> ELSE <<"return", "dict">>

\* one call of a trading primitive, answered by the venue
GatewayCall(call, reply) ==
    /\ gateway_log' = logged(call, reply)
    /\ UNCHANGED <<mpc, is_initialized, prices, orders, order_history,
                   current_orders, shutdown_event, emergency_shutdown, qpc,
                   cycles, orders_to_cancel, quote_prices, cancel_calls,
                   place_calls, orphans, epc, fpc, feedCount, venue, wpc,
                   wfaults, ppc, polls, current_position, dispatch_log>>

----
\* MarketMaker.position_polling_loop and _update_position

\* the legs the venue reports in this model; a size <<n>> is the text of the
\* number n, <<>> a text float() cannot parse; the code reads the side only
\* by comparing it with 'long' and 'short'
Legs ==
    {[side |-> "long", size |-> <<1>>], [side |-> "long", size |-> <<2>>],
     [side |-> "short", size |-> <<1>>], [side |-> "flat", size |-> <<1>>],
     [side |-> "long", size |-> <<>>]}

RECURSIVE SeqsUpTo(_, _)
\* the sequences over S of length at most n
SeqsUpTo(S, n) ==
    IF n = 0 THEN {<<>>}
    ELSE LET shorter == SeqsUpTo(S, n - 1)
         IN  shorter \cup {Append(q, x) : q \in {r \in shorter : Len(r) = n - 1}, x \in S}

\* the replies of the venue to listPositions
PositionReplies ==
    {Unreachable, HttpReply(400, ErrorBody), HttpReply(200, ErrorBody)}
        \cup {HttpReply(200, DataBody([positions |-> legs])) :
                 legs \in SeqsUpTo(Legs, MaxLegs)}

\* response.get('data', {}).get('positions', [])
positions_of(body) ==
    IF "data" \in DOMAIN body /\ "positions" \in DOMAIN body.data
    THEN body.data.positions
    ELSE <<>>

\* the loop of lines 181-189 accumulating into the previous snapshot
RECURSIVE total_position_Accumulated(_)
total_position_Accumulated(legs) ==
    IF legs = <<>> THEN current_position.position
    ELSE LET leg == legs[Len(legs)]
             rest == total_position_Accumulated(SubSeq(legs, 1, Len(legs) - 1))
         IN  IF leg.side = "long" THEN rest + leg.size[1]
             ELSE IF leg.side = "short" THEN rest - leg.size[1]
             ELSE rest

\* lines 178-189: total_position starts at 0.0; long adds, short subtracts,
\* any other side is skipped
RECURSIVE total_position(_)
total_position(legs) ==
    IF legs = <<>> THEN 0
    ELSE LET leg == legs[Len(legs)]
             rest == total_position(SubSeq(legs, 1, Len(legs) - 1))
         IN  IF leg.side = "long" THEN rest + leg.size[1]
             ELSE IF leg.side = "short" THEN rest - leg.size[1]
             ELSE rest

\* the try block of _update_position raises: get_positions raised, or
\* float() met a size it cannot parse (line 183)
update_fails(reply) ==
    LET out == make_request(reply)
    IN  \/ out.kind = "raise"
        \/ \E i \in DOMAIN positions_of(out.value) :
               positions_of(out.value)[i].size = <<>>

\* an _update_position that writes each field as soon as it has it: the fill
\* count and the time before the legs are summed
update_position_Piecewise(reply) ==
    IF make_request(reply).kind = "raise"
    THEN current_position
    ELSE [position |->
              IF \E i \in DOMAIN positions_of(reply.body) :
                     positions_of(reply.body)[i].size = <<>>
              THEN current_position.position
              ELSE total_position(positions_of(reply.body)),
          total_fills |-> Cardinality(get_filled_orders(orders)),
          last_updated |-> polls + 1]

\* _update_position, lines 174-198: the three fields are written by one
\* dict.update at the end of the try block; on failure the snapshot is left
\* alone.  last_updated is the number of the poll that wrote the snapshot,
\* standing for its utcnow() time.
update_position(reply) ==
    IF update_fails(reply)
    THEN current_position
    ELSE [position |-> total_position(positions_of(make_request(reply).value)),
          total_fills |-> Cardinality(get_filled_orders(orders)),
          last_updated |-> polls + 1]

\* _update_position without its except clause
CaughtByUpdatePosition_Missing == FALSE

\* _update_position, lines 197-198: every exception is caught and logged
CaughtByUpdatePosition == TRUE

\* where position_polling_loop waits after a poll: the backoff sleep of line
\* 170 if _update_position raised, the wait of line 163 otherwise
after_poll(reply) ==
    IF update_fails(reply) /\ ~CaughtByUpdatePosition THEN "backoff" ELSE "wait"

\* lines 159-170: the wait (or the task start) ends with shutdown_event unset;
\* the next poll runs, without suspension, up to the following wait
PositionPoll(reply) ==
    /\ mpc = "run"
    /\ ppc \in {"poll", "wait", "backoff"}
    /\ ~shutdown_event
    /\ polls < MaxPolls
    /\ polls' = polls + 1
    /\ current_position' = update_position(reply)
    /\ gateway_log' = <<LogEntry("get_positions", reply)>>
    /\ ppc' = after_poll(reply)
    /\ UNCHANGED <<mpc, is_initialized, prices, orders, order_history,
                   current_orders, shutdown_event, emergency_shutdown, qpc,
                   cycles, orders_to_cancel, quote_prices, cancel_calls,
                   place_calls, orphans, epc, fpc, feedCount, venue, wpc,
                   wfaults, dispatch_log>>

\* lines 159 and 163-164: shutdown_event is set; the loop ends
PollingLoopExit ==
    /\ mpc = "run"
    /\ ppc \in {"poll", "wait", "backoff"}
    /\ shutdown_event
    /\ ppc' = "done"
    /\ UNCHANGED <<mpc, is_initialized, prices, orders, order_history,
                   current_orders, shutdown_event, emergency_shutdown, qpc,
                   cycles, orders_to_cancel, quote_prices, cancel_calls,
                   place_calls, orphans, epc, fpc, feedCount, venue, wpc,
                   wfaults, polls, current_position, dispatch_log,
                   gateway_log>>

\* MarketMaker.__init__, line 43: the position snapshot as constructed;
\* last_updated 0 is None
NoPosition == [position |-> 0, total_fills |-> 0, last_updated |-> 0]

TasksOff ==
    /\ wpc = "off"
    /\ wfaults = 0
    /\ ppc = "off"
    /\ polls = 0
    /\ current_position = NoPosition
    /\ dispatch_log = <<>>
    /\ gateway_log = <<>>

Init ==
    /\ mpc = "init"
    /\ is_initialized = FALSE
    /\ prices = [s \in PRICE_SYMBOLS |-> [bid |-> NoPrice, ask |-> NoPrice]]
    /\ orders = <<>>
    /\ order_history = <<>>
    /\ current_orders = ClearedSlots
    /\ shutdown_event = FALSE
    /\ emergency_shutdown = FALSE
    /\ qpc = "idle"
    /\ cycles = 0
    /\ orders_to_cancel = <<>>
    /\ quote_prices = NoQuote
    /\ cancel_calls = NoCalls
    /\ place_calls = IdlePlace
    /\ orphans = {}
    /\ epc = "wait"
    /\ fpc = "off"
    /\ feedCount = 0
    /\ venue \in {<<>>, <<[st |-> "live", by |-> "restart"]>>}
    /\ TasksOff

Next ==
    \/ InitializeOk
    \/ InitializeErr
    \/ \E s \in PRICE_SYMBOLS, t \in Ticks : PriceUpdate(s, t)
    \/ QuoteStart
    \/ \E id \in OrderIds : ThreadCancelOk(id)
    \/ \E id \in OrderIds : ThreadCancelErr(id)
    \/ QuoteAfterCancel
    \/ \E s \in Sides : ThreadPlaceOk(s)
    \/ \E s \in Sides : ThreadPlaceErr(s)
    \/ QuoteAfterPlace
    \/ \E id \in OrderIds : OrphanPlaceOk(id)
    \/ \E id \in OrderIds : OrphanPlaceErr(id)
    \/ TradingLoopExit
    \/ TriggerShutdown
    \/ EmergencyCleanupOk
    \/ EmergencyCleanupErr
    \/ FeedExit
    \/ \E id \in OrderIds, st \in FeedStatuses : FeedOrderUpdate(id, st)

Spec == Init /\ [][Next]_vars

----
\* AccountDataState on its own: any sequence of update_order calls, with every
\* status the venue documents or none, with or without an order id.

AcctIds == 1..3
UpdateStatuses == Statuses \cup {None}

\* update_order(order_data) with order_data.get('orderId') = id (NoOrder: no
\* id) and order_data.get('status') = st
ApplyUpdate(id, st) ==
    /\ Len(order_history) < MaxUpdates
    /\ LET a == update_order(Acct, FeedEvent(id, st)) IN
           /\ orders' = a.orders
           /\ order_history' = a.order_history
    /\ UNCHANGED <<mpc, is_initialized, prices, current_orders, shutdown_event,
                   emergency_shutdown, qpc, cycles, orders_to_cancel,
                   quote_prices, cancel_calls, place_calls, orphans, epc, fpc,
                   feedCount, venue,
                   taskVars>>

AccountInit == Init /\ venue = <<>>

AccountNext ==
    \E id \in AcctIds \cup {NoOrder}, st \in UpdateStatuses : ApplyUpdate(id, st)

AccountSpec == AccountInit /\ [][AccountNext]_vars

----
\* AccountDataState.update_order with events that lack fields: each of
\* status, executedQty and avgPx is given or left out.

UpdateIds == 1..2
UpdateEvents ==
    {OrderEvent(id, st, ORDER_SIZE, exe, px) :
        id \in UpdateIds \cup {NoOrder}, st \in {"submitted", "filled", None},
        exe \in {"0.00", None}, px \in {"px", None}}

\* update_order(order_data) with order_data = ev
ApplyEvent(ev) ==
    /\ Len(order_history) < MaxUpdates
    /\ LET a == update_order(Acct, ev) IN
           /\ orders' = a.orders
           /\ order_history' = a.order_history
    /\ UNCHANGED <<mpc, is_initialized, prices, current_orders, shutdown_event,
                   emergency_shutdown, qpc, cycles, orders_to_cancel,
                   quote_prices, cancel_calls, place_calls, orphans, epc, fpc,
                   feedCount, venue,
                   taskVars>>

UpdateNext == \E ev \in UpdateEvents : ApplyEvent(ev)

UpdateSpec == AccountInit /\ [][UpdateNext]_vars

----
\* AccountDataState filling its history: one update_order call per new order,
\* order n being the n-th to arrive, so that each history entry tells which
\* append made it.  A run starts from the account state that n such calls
\* have produced, for any n up to the history limit; the run from n = 0
\* passes through all of them.

\* the account state after the first n of these update_order calls, n being
\* at most HISTORY_LIMIT
after_appends(n) ==
    [orders |-> [x \in 1..n |-> OrderRecord(FeedEvent(x, "submitted"))],
     order_history |->
         [i \in 1..n |-> [orderId |-> i, previousStatus |-> "unknown",
                          newStatus |-> "submitted"]]]

HistoryInit ==
    /\ \E n \in 0..HISTORY_LIMIT :
           LET a == after_appends(n) IN
               /\ orders = a.orders
               /\ order_history = a.order_history
    /\ mpc = "init"
    /\ is_initialized = FALSE
    /\ prices = [s \in PRICE_SYMBOLS |-> [bid |-> NoPrice, ask |-> NoPrice]]
    /\ current_orders = ClearedSlots
    /\ shutdown_event = FALSE
    /\ emergency_shutdown = FALSE
    /\ qpc = "idle"
    /\ cycles = 0
    /\ orders_to_cancel = <<>>
    /\ quote_prices = NoQuote
    /\ cancel_calls = NoCalls
    /\ place_calls = IdlePlace
    /\ orphans = {}
    /\ epc = "wait"
    /\ fpc = "off"
    /\ feedCount = 0
    /\ venue = <<>>
    /\ TasksOff

HistoryAppend ==
    LET n == Cardinality(DOMAIN orders) + 1 IN
        /\ n <= HISTORY_LIMIT + MaxOverflow
        /\ LET a == update_order(Acct, FeedEvent(n, "submitted")) IN
               /\ orders' = a.orders
               /\ order_history' = a.order_history
        /\ UNCHANGED <<mpc, is_initialized, prices, current_orders,
                       shutdown_event, emergency_shutdown, qpc, cycles,
                       orders_to_cancel, quote_prices, cancel_calls,
                       place_calls, orphans, epc, fpc, feedCount, venue,
                   taskVars>>

HistorySpec == HistoryInit /\ [][HistoryAppend]_vars

----
\* FairPriceCalculator on its own: the price store holds, for each symbol,
\* nothing yet or any (bid, ask) with bid <= ask up to MaxPrice, zero
\* included; a quoting cycle then starts and computes its prices.

GridTicks == {t \in (0..MaxPrice) \X (0..MaxPrice) : t[1] <= t[2]}

\* a PriceStore entry as __init__ or update_price leaves it
PriceEntries ==
    {[bid |-> NoPrice, ask |-> NoPrice]}
        \cup {[bid |-> <<t[1]>>, ask |-> <<t[2]>>] : t \in GridTicks}

\* run() has started the tasks and the public feed has delivered its ticks
PriceInit ==
    /\ prices \in [PRICE_SYMBOLS -> PriceEntries]
    /\ mpc = "run"
    /\ is_initialized = FALSE
    /\ orders = <<>>
    /\ order_history = <<>>
    /\ current_orders = ClearedSlots
    /\ shutdown_event = FALSE
    /\ emergency_shutdown = FALSE
    /\ qpc = "idle"
    /\ cycles = 0
    /\ orders_to_cancel = <<>>
    /\ quote_prices = NoQuote
    /\ cancel_calls = NoCalls
    /\ place_calls = IdlePlace
    /\ orphans = {}
    /\ epc = "wait"
    /\ fpc = "recv"
    /\ feedCount = 0
    /\ venue = <<>>
    /\ TasksOff

PriceSpec == PriceInit /\ [][QuoteStart]_vars

----
\* RoxomWebSocketClient in detail: every shape of message _handle_message can
\* be given, and the connection.  fpc is "connect" while websockets.connect
\* is awaited, "recv" in the receive loop, "pause" in the sleep of line 89,
\* "backoff" in the sleep of line 46, "done" once start() has returned.

\* the order ids and payloads of the private feed's order messages
DispatchIds == {NoOrder, 1, 2}
DispatchEvents == {FeedEvent(id, st) : id \in DispatchIds, st \in FeedStatuses}

\* a raw message: shape "notjson" (json.loads raises), "scalar" (JSON, but
\* not a dict or list), "event" (has 'event'), "data" (has 'type'), "other"
\* (a dict with neither); data is <<payload>> for a dict payload, <<>> for a
\* payload that is not a dict
Message(shape, type, data) == [shape |-> shape, type |-> type, data |-> data]
Messages ==
    {Message(sh, "none", <<>>) : sh \in {"notjson", "scalar", "event", "other"}}
        \cup {Message("data", "order", <<ev>>) : ev \in DispatchEvents}
        \cup {Message("data", t, <<>>) : t \in {"order", "balance", "trade"}}

\* the message is an order update with a dict payload
IsOrderUpdate(msg) == msg.shape = "data" /\ msg.type = "order" /\ msg.data # <<>>

\* _handle_order_update calling the callback before update_order
dispatch_calls_CallbackFirst(msg) ==
    IF IsOrderUpdate(msg) THEN <<"on_order_update", "update_order">> ELSE <<>>

\* lines 107-169: the calls made for a message, in order.  Only type 'order'
\* reaches _handle_order_update; update_order raises on a payload that is
\* not a dict (line 168 catches), so the callback is not reached
dispatch_calls(msg) ==
    IF msg.shape = "data" /\ msg.type = "order"
    THEN IF msg.data = <<>> THEN <<"update_order">>
         ELSE <<"update_order", "on_order_update">>
    ELSE <<>>

\* the account state after the message: update_order for an order update,
\* nothing otherwise (OrderManager._on_order_update only logs)
dispatch_acct(acct, msg) ==
    IF \E i \in DOMAIN dispatch_calls(msg) : dispatch_calls(msg)[i] = "update_order"
    THEN IF msg.data = <<>> THEN acct ELSE update_order(acct, msg.data[1])
    ELSE acct

\* an exception is raised while the message is handled: json.loads fails,
\* `'event' in message` fails on a scalar, update_order fails on a payload
\* that is not a dict
dispatch_raises(msg) ==
    \/ msg.shape \in {"notjson", "scalar"}
    \/ msg.shape = "data" /\ msg.type = "order" /\ msg.data = <<>>

\* _handle_message and _handle_order_update without their except clauses
CaughtByHandleMessage_Missing == FALSE

\* lines 119-122 and 168-169: every exception is caught and logged
CaughtByHandleMessage == TRUE

\* lines 75-89: where the receive loop goes after a message; an exception
\* leaving _handle_message would be logged and followed by a sleep (87-89)
after_message(msg) ==
    IF dispatch_raises(msg) /\ ~CaughtByHandleMessage
    THEN "pause"
    ELSE IF shutdown_event THEN "done" ELSE "recv"

\* the dispatch log with the message just handled, the latest two kept
dispatched(msg) ==
    SubSeq(<<[msg |-> msg, calls |-> dispatch_calls(msg)]>> \o dispatch_log, 1,
           IF dispatch_log = <<>> THEN 1 ELSE 2)

\* the variables the private feed leaves alone
privateFrame == <<mpc, is_initialized, prices, current_orders, shutdown_event,
                  emergency_shutdown, qpc, cycles, orders_to_cancel,
                  quote_prices, cancel_calls, place_calls, orphans, epc, venue,
                  wpc, wfaults, ppc, polls, current_position, gateway_log>>

\* lines 77-78: a message arrives and _handle_message runs
PrivateMessage(msg) ==
    /\ fpc = "recv"
    /\ feedCount < MaxEvents
    /\ feedCount' = feedCount + 1
    /\ LET a == dispatch_acct(Acct, msg) IN
           /\ orders' = a.orders
           /\ order_history' = a.order_history
    /\ dispatch_log' = dispatched(msg)
    /\ fpc' = after_message(msg)
    /\ UNCHANGED privateFrame

\* start(), lines 41-46: where the task goes when _connect_and_listen raised
after_private_error == IF shutdown_event THEN "done" ELSE "backoff"

\* lines 82-86 and 96-105: recv raises ConnectionClosed, which leaves
\* _connect_and_listen
PrivateClosed ==
    /\ fpc = "recv"
    /\ fpc' = after_private_error
    /\ UNCHANGED <<orders, order_history, feedCount, dispatch_log, privateFrame>>

\* line 46: the reconnect sleep ends; back to the loop head of start()
PrivateBackoffEnd ==
    /\ fpc = "backoff"
    /\ fpc' = IF shutdown_event THEN "done" ELSE "connect"
    /\ UNCHANGED <<orders, order_history, feedCount, dispatch_log, privateFrame>>

\* lines 64-75: websockets.connect succeeds
PrivateConnectOk ==
    /\ fpc = "connect"
    /\ fpc' = IF shutdown_event THEN "done" ELSE "recv"
    /\ UNCHANGED <<orders, order_history, feedCount, dispatch_log, privateFrame>>

\* lines 64 and 91-105: websockets.connect raises
PrivateConnectErr ==
    /\ fpc = "connect"
    /\ fpc' = after_private_error
    /\ UNCHANGED <<orders, order_history, feedCount, dispatch_log, privateFrame>>

----
\* BinanceWebSocketClient.start and _connect_and_listen: the public feed with
\* its connection.  A step runs from one await (connect, recv, sleep) to the
\* next.

\* start() without its except clause
CaughtByFeedStart_Missing == FALSE

\* start(), lines 29-34: every exception of _connect_and_listen is caught
CaughtByFeedStart == TRUE

\* lines 26-34: where start() goes when _connect_and_listen raised
after_feed_error ==
    IF ~CaughtByFeedStart THEN "crashed"
    ELSE IF shutdown_event THEN "done" ELSE "backoff"

\* loops that never look at shutdown_event
feed_loop_head_Unchecked(go) == go

\* lines 26 and 46: where the task goes from a loop head
feed_loop_head(go) == IF shutdown_event THEN "done" ELSE go

\* the variables the public feed leaves alone
feedFrame == <<mpc, is_initialized, orders, order_history, current_orders,
               shutdown_event, emergency_shutdown, qpc, cycles, orders_to_cancel,
               quote_prices, cancel_calls, place_calls, orphans, epc, fpc,
               feedCount, venue, ppc, polls, current_position, dispatch_log,
               gateway_log>>

\* line 43: websockets.connect succeeds; the receive loop is entered unless
\* shutdown_event is set by now
FeedConnectOk ==
    /\ wpc = "connect"
    /\ wpc' = feed_loop_head("recv")
    /\ UNCHANGED <<prices, wfaults, feedFrame>>

\* line 43: websockets.connect raises
FeedConnectErr ==
    /\ wpc = "connect"
    /\ wfaults < MaxFaults
    /\ wfaults' = wfaults + 1
    /\ wpc' = after_feed_error
    /\ UNCHANGED <<prices, feedFrame>>

\* lines 48-50: a book ticker arrives; update_price, then on_price_update,
\* whose get_fair_price may raise (line 57: logged, sleep 1)
FeedPrice(symbol, t) ==
    /\ wpc = "recv"
    /\ prices' = update_price(symbol, t[1], t[2])
    /\ prices' # prices
    /\ wpc' = IF fair_price_raises' THEN "pause" ELSE feed_loop_head("recv")
    /\ UNCHANGED <<wfaults, feedFrame>>

\* lines 49-50 and 57-59: a message json.loads or _handle_message cannot
\* read; logged, sleep 1
FeedBadMessage ==
    /\ wpc = "recv"
    /\ wfaults < MaxFaults
    /\ wfaults' = wfaults + 1
    /\ wpc' = "pause"
    /\ UNCHANGED <<prices, feedFrame>>

\* line 59: the sleep after a bad message ends; back to the loop head
FeedPauseEnd ==
    /\ wpc = "pause"
    /\ wpc' = feed_loop_head("recv")
    /\ UNCHANGED <<prices, wfaults, feedFrame>>

\* lines 54-56: recv raises ConnectionClosed, which leaves
\* _connect_and_listen
FeedClosed ==
    /\ wpc = "recv"
    /\ wfaults < MaxFaults
    /\ wfaults' = wfaults + 1
    /\ wpc' = after_feed_error
    /\ UNCHANGED <<prices, feedFrame>>

\* lines 52-53 and 46: recv times out with shutdown_event set; both loops end
FeedTimeoutExit ==
    /\ wpc = "recv"
    /\ feed_loop_head("recv") = "done"
    /\ wpc' = "done"
    /\ UNCHANGED <<prices, wfaults, feedFrame>>

\* line 34: the backoff sleep ends; back to the loop head of start()
FeedBackoffEnd ==
    /\ wpc = "backoff"
    /\ wpc' = feed_loop_head("connect")
    /\ UNCHANGED <<prices, wfaults, feedFrame>>

----
\* The position polling loop on its own: run() has started it, the account
\* state holds no order or one filled order, and the venue answers each
\* listPositions call in any of the ways PositionReplies lists.

PollInit ==
    /\ mpc = "run"
    /\ is_initialized = FALSE
    /\ prices = [s \in PRICE_SYMBOLS |-> [bid |-> NoPrice, ask |-> NoPrice]]
    /\ \E a \in {[orders |-> <<>>, order_history |-> <<>>],
                 update_order([orders |-> <<>>, order_history |-> <<>>],
                              FeedEvent(1, "filled"))} :
           /\ orders = a.orders
           /\ order_history = a.order_history
    /\ current_orders = ClearedSlots
    /\ shutdown_event = FALSE
    /\ emergency_shutdown = FALSE
    /\ qpc = "idle"
    /\ cycles = 0
    /\ orders_to_cancel = <<>>
    /\ quote_prices = NoQuote
    /\ cancel_calls = NoCalls
    /\ place_calls = IdlePlace
    /\ orphans = {}
    /\ epc = "wait"
    /\ fpc = "recv"
    /\ feedCount = 0
    /\ venue = <<>>
    /\ wpc = "off"
    /\ wfaults = 0
    /\ ppc = "poll"
    /\ polls = 0
    /\ current_position = NoPosition
    /\ dispatch_log = <<>>
    /\ gateway_log = <<>>

PollNext ==
    \/ \E reply \in PositionReplies : PositionPoll(reply)
    \/ PollingLoopExit
    \/ TriggerShutdown

PollSpec == PollInit /\ [][PollNext]_vars

----
\* RoxomClient on its own: any sequence of calls, each answered in any of the
\* ways GatewayReplies lists.

GatewayNext ==
    \E call \in GatewayCalls, reply \in GatewayReplies : GatewayCall(call, reply)

GatewaySpec == Init /\ [][GatewayNext]_vars

----
\* The private feed on its own: run() has started it and it is connecting.

DispatchInit ==
    /\ mpc = "run"
    /\ is_initialized = FALSE
    /\ prices = [s \in PRICE_SYMBOLS |-> [bid |-> NoPrice, ask |-> NoPrice]]
    /\ orders = <<>>
    /\ order_history = <<>>
    /\ current_orders = ClearedSlots
    /\ shutdown_event = FALSE
    /\ emergency_shutdown = FALSE
    /\ qpc = "idle"
    /\ cycles = 0
    /\ orders_to_cancel = <<>>
    /\ quote_prices = NoQuote
    /\ cancel_calls = NoCalls
    /\ place_calls = IdlePlace
    /\ orphans = {}
    /\ epc = "wait"
    /\ fpc = "connect"
    /\ feedCount = 0
    /\ venue = <<>>
    /\ TasksOff

DispatchNext ==
    \/ \E msg \in Messages : PrivateMessage(msg)
    \/ PrivateClosed
    \/ PrivateBackoffEnd
    \/ PrivateConnectOk
    \/ PrivateConnectErr
    \/ FeedExit
    \/ TriggerShutdown

DispatchSpec == DispatchInit /\ [][DispatchNext]_vars

----
\* The public feed on its own: run() has started it and it is connecting.
\* The ticks include a zero quote, for which on_price_update raises.

PublicFeedTicks == {<<1, 2>>, <<0, 0>>}

PublicFeedInit ==
    /\ mpc = "run"
    /\ is_initialized = FALSE
    /\ prices = [s \in PRICE_SYMBOLS |-> [bid |-> NoPrice, ask |-> NoPrice]]
    /\ orders = <<>>
    /\ order_history = <<>>
    /\ current_orders = ClearedSlots
    /\ shutdown_event = FALSE
    /\ emergency_shutdown = FALSE
    /\ qpc = "idle"
    /\ cycles = 0
    /\ orders_to_cancel = <<>>
    /\ quote_prices = NoQuote
    /\ cancel_calls = NoCalls
    /\ place_calls = IdlePlace
    /\ orphans = {}
    /\ epc = "wait"
    /\ fpc = "recv"
    /\ feedCount = 0
    /\ venue = <<>>
    /\ wpc = "connect"
    /\ wfaults = 0
    /\ ppc = "off"
    /\ polls = 0
    /\ current_position = NoPosition
    /\ dispatch_log = <<>>
    /\ gateway_log = <<>>

PublicFeedNext ==
    \/ FeedConnectOk
    \/ FeedConnectErr
    \/ \E sym \in PRICE_SYMBOLS, t \in PublicFeedTicks : FeedPrice(sym, t)
    \/ FeedBadMessage
    \/ FeedPauseEnd
    \/ FeedClosed
    \/ FeedTimeoutExit
    \/ FeedBackoffEnd
    \/ TriggerShutdown

PublicFeedSpec == PublicFeedInit /\ [][PublicFeedNext]_vars

----
\* The quoting loop under every failure a cycle can meet: besides the gateway
\* errors of Next, a BTC mid of zero (get_fair_price raises) and place_order
\* responses without data.orderId.  The private feed and immediate_cleanup
\* never touch the loop's position and are left out.

\* the ticks of the public feed, with a zero quote
FaultTicks == Ticks \cup {<<0, 0>>}

FaultNext ==
    \/ InitializeOk
    \/ InitializeErr
    \/ \E s \in PRICE_SYMBOLS, t \in FaultTicks : PriceUpdate(s, t)
    \/ QuoteStart
    \/ \E id \in OrderIds : ThreadCancelOk(id)
    \/ \E id \in OrderIds : ThreadCancelErr(id)
    \/ QuoteAfterCancel
    \/ \E s \in Sides : ThreadPlaceOk(s)
    \/ \E s \in Sides : ThreadPlaceErr(s)
    \/ \E s \in Sides : ThreadPlaceMalformed(s)
    \/ QuoteAfterPlace
    \/ \E id \in OrderIds : OrphanPlaceOk(id)
    \/ \E id \in OrderIds : OrphanPlaceErr(id)
    \/ TradingLoopExit
    \/ TriggerShutdown

FaultSpec == Init /\ [][FaultNext]_vars

\* The four tasks of run() side by side until they end: the public feed, the
\* private feed, trading_loop and position_polling_loop.  The run starts
\* after a first quoting cycle has placed bid 2 and ask 3, with both feeds
\* about to reconnect, and goes on for DrainWork more cycles, polls, private
\* messages and public feed faults.  The inputs are the book tickers of the
\* public feed, a fill of the bid on the private feed, and a failed
\* listPositions call.

\* the work each task does in a run of DrainSpec
DrainWork == 1

DrainMessages == {Message("data", "order", <<FeedEvent(2, "filled")>>)}

DrainReplies == {Unreachable}

\* the account state after the first cycle registered its bid and ask
FirstCycleAcct ==
    update_order(update_order([orders |-> <<>>, order_history |-> <<>>],
                              BidRegistration(2)),
                 AskRegistration(3))

DrainInit ==
    /\ mpc = "run"
    /\ is_initialized = FALSE
    /\ prices = [s \in PRICE_SYMBOLS |-> [bid |-> <<1>>, ask |-> <<2>>]]
    /\ orders = FirstCycleAcct.orders
    /\ order_history = FirstCycleAcct.order_history
    /\ current_orders = [bid_id |-> 2, ask_id |-> 3]
    /\ shutdown_event = FALSE
    /\ emergency_shutdown = FALSE
    /\ qpc = "idle"
    /\ cycles = 1
    /\ orders_to_cancel = <<>>
    /\ quote_prices = NoQuote
    /\ cancel_calls = NoCalls
    /\ place_calls = IdlePlace
    /\ orphans = {}
    /\ epc = "wait"
    /\ fpc = "connect"
    /\ feedCount = 0
    /\ venue = VenuePlace(VenuePlace(<<>>, 2), 3)
    /\ wpc = "connect"
    /\ wfaults = 0
    /\ ppc = "poll"
    /\ polls = 0
    /\ current_position = NoPosition
    /\ dispatch_log = <<>>
    /\ gateway_log = <<>>

\* the steps of BinanceWebSocketClient.start
PublicFeedStep ==
    \/ FeedConnectOk
    \/ wfaults < DrainWork /\ FeedConnectErr
    \/ \E sym \in PRICE_SYMBOLS, t \in PublicFeedTicks : FeedPrice(sym, t)
    \/ wfaults < DrainWork /\ FeedBadMessage
    \/ FeedPauseEnd
    \/ wfaults < DrainWork /\ FeedClosed
    \/ FeedTimeoutExit
    \/ FeedBackoffEnd

\* the steps of RoxomWebSocketClient.start
PrivateFeedStep ==
    \/ feedCount < DrainWork /\ \E msg \in DrainMessages : PrivateMessage(msg)
    \/ PrivateClosed
    \/ PrivateBackoffEnd
    \/ PrivateConnectOk
    \/ PrivateConnectErr
    \/ FeedExit

\* the steps of trading_loop and of the gateway threads of its cycle
QuotingStep ==
    \/ cycles < 1 + DrainWork /\ QuoteStart
    \/ \E id \in OrderIds : ThreadCancelOk(id)
    \/ \E id \in OrderIds : ThreadCancelErr(id)
    \/ QuoteAfterCancel
    \/ \E s \in Sides : ThreadPlaceOk(s)
    \/ \E s \in Sides : ThreadPlaceErr(s)
    \/ QuoteAfterPlace
    \/ TradingLoopExit

\* the steps of position_polling_loop
PollingStep ==
    \/ polls < DrainWork /\ \E reply \in DrainReplies : PositionPoll(reply)
    \/ PollingLoopExit

\* a step of one of the four tasks
DrainStep == PublicFeedStep \/ PrivateFeedStep \/ QuotingStep \/ PollingStep

DrainNext ==
    \/ DrainStep
    \/ \E id \in OrderIds : OrphanPlaceOk(id)
    \/ \E id \in OrderIds : OrphanPlaceErr(id)
    \/ TriggerShutdown

\* The event loop runs a task whenever one can take a step: every pending
\* connect, receive, sleep and gateway call eventually returns.
DrainSpec ==
    /\ DrainInit
    /\ [][DrainNext]_vars
    /\ WF_vars(DrainStep)

\* The coordinator with the emergency signal raised on its own as well as by
\* trigger_shutdown.
EmergencyNext ==
    \/ InitializeOk
    \/ InitializeErr
    \/ \E s \in PRICE_SYMBOLS, t \in Ticks : PriceUpdate(s, t)
    \/ QuoteStart
    \/ \E id \in OrderIds : ThreadCancelOk(id)
    \/ \E id \in OrderIds : ThreadCancelErr(id)
    \/ QuoteAfterCancel
    \/ \E s \in Sides : ThreadPlaceOk(s)
    \/ \E s \in Sides : ThreadPlaceErr(s)
    \/ QuoteAfterPlace
    \/ \E id \in OrderIds : OrphanPlaceOk(id)
    \/ \E id \in OrderIds : OrphanPlaceErr(id)
    \/ TradingLoopExit
    \/ EmergencySet
    \/ TriggerShutdown
    \/ EmergencyCleanupOk
    \/ EmergencyCleanupErr
    \/ FeedExit

EmergencySpec == Init /\ [][EmergencyNext]_vars

\* The quoting loop against a venue that rejects requests: a rejection comes
\* back as an exception of the gateway (status 4xx) or as a 200 response
\* that reports the error in its body (a cancel_order response with an error
\* body, a place_order response without data.orderId).
RejectionNext ==
    \/ InitializeOk
    \/ InitializeErr
    \/ \E s \in PRICE_SYMBOLS, t \in Ticks : PriceUpdate(s, t)
    \/ QuoteStart
    \/ \E id \in OrderIds : ThreadCancelOk(id)
    \/ \E id \in OrderIds : ThreadCancelErr(id)
    \/ \E id \in OrderIds : ThreadCancelRefused(id)
    \/ QuoteAfterCancel
    \/ \E s \in Sides : ThreadPlaceOk(s)
    \/ \E s \in Sides : ThreadPlaceErr(s)
    \/ \E s \in Sides : ThreadPlaceMalformed(s)
    \/ QuoteAfterPlace
    \/ \E id \in OrderIds : OrphanPlaceOk(id)
    \/ \E id \in OrderIds : OrphanPlaceErr(id)
    \/ TradingLoopExit
    \/ TriggerShutdown

RejectionSpec == Init /\ [][RejectionNext]_vars

----
\* Properties

\* every task of the coordinator has ended and no gateway thread is in flight
AllTerminated ==
    /\ qpc = "done"
    /\ epc \in {"cleaned", "failed"}
    /\ fpc = "done"
    /\ orphans = {}

\* the step in which a quoting cycle starts (trading_loop calls quote_market)
CycleStarts == qpc = "idle" /\ cycles' = cycles + 1

\* the step in which quote_market resumes from the place gather
PlaceResumes == qpc = "place_wait" /\ qpc' # "place_wait"

\* the step in which quote_market resumes from the cancel gather
CancelResumes == qpc = "cancel_wait" /\ qpc' # "cancel_wait"

\* the step in which immediate_cleanup runs
CleanupRuns == epc = "wait" /\ epc' # "wait"

\* the cycle that is starting fails in the price computation
PriceFails == CycleStarts /\ fair_price_raises

\* the cycle resumes from the cancel gather with a failed cancel_order
CancelFails ==
    CancelResumes /\ \E id \in DOMAIN cancel_calls : cancel_calls[id] = "err"

\* the cycle resumes from the place gather with a failed place_order or a
\* malformed response
PlaceFails ==
    PlaceResumes /\ \E s \in Sides : place_calls[s].st \in {"err", "bad"}

\* C1: when the emergency signal fires while a quoting cycle is suspended in
\* its place phase, then once immediate_cleanup and the cycle have both
\* finished, both quote slots are null: the cycle's write of the newly placed
\* ids never lands after the emergency clear.
C1_EmergencyClearIsFinal ==
    (epc # "wait" /\ qpc = "done") => current_orders = ClearedSlots

\* C2: once trigger_shutdown has fired, cancel_all_orders has succeeded and
\* every coordinator task has ended, no order placed by the coordinator is
\* live at the venue.
C2_NoRestingOrders ==
    (AllTerminated /\ emergency_shutdown /\ epc = "cleaned")
        => \A id \in DOMAIN venue :
               venue[id].by = "coordinator" => venue[id].st # "live"

\* C3: terminal idempotence of update_order: a step that applies update_order
\* (it appends to the history) leaves every order whose status is terminal
\* exactly as it was.
C3_TerminalIdempotence ==
    [][order_history' # order_history
          => \A id \in DOMAIN orders :
                 orders[id].status \in terminal_states
                     => orders'[id] = orders[id]]_vars

\* C4: quote-slot invariant: whenever the coordinator has yielded control,
\* each quote slot is null or holds the id of an order whose status in the
\* account state is non-terminal.
C4_QuoteSlotInvariant ==
    \A s \in Sides :
        current_orders[s] # NoOrder
            => is_order_active(orders, current_orders[s])

\* C5: a cycle that starts with a fair price and a slot whose order the
\* account state reports as terminal issues no cancel_order for that slot,
\* sets the slot to null in its cancel phase, and goes on to the place phase.
C5_TerminalSlotDropped ==
    [][(CycleStarts /\ fair_price_ok(get_fair_price))
          => \A s \in Sides :
                 (/\ current_orders[s] # NoOrder
                  /\ ~is_order_active(orders, current_orders[s]))
                     => /\ current_orders[s] \notin DOMAIN cancel_calls'
                        /\ current_orders'[s] = NoOrder
                        /\ \/ qpc' = "cancel_wait"
                           \/ qpc' = "place_wait" /\ place_calls' = PendingPlace]_vars

\* C6: when the place gather is resumed with one place_order failed and the
\* other succeeded, the successful side's order id is written into its slot
\* and registered in the account state with status pendingsubmit.
C6_PartialPlacementRecorded ==
    [][(PlaceResumes /\ \E f \in Sides : place_calls[f].st = "err")
          => \A s \in Sides :
                 place_calls[s].st = "ok"
                     => /\ current_orders'[s] = place_calls[s].id
                        /\ place_calls[s].id \in DOMAIN orders'
                        /\ orders'[place_calls[s].id].status = "pendingsubmit"]_vars

\* C7: when the cycle resumes from the cancel gather, whatever cancel_order
\* calls failed, every successful cancellation is processed (its order is
\* marked cancelled) and the cycle goes on to issue both place_order calls.
C7_CancelFailureIsolated ==
    [][CancelResumes
          => /\ qpc' = "place_wait"
             /\ place_calls' = PendingPlace
             /\ \A id \in DOMAIN cancel_calls :
                    cancel_calls[id] = "ok" => orders'[id].status = "cancelled"]_vars

\* C7 witness: a cycle is in its place phase after a cancel phase in which one
\* cancellation failed and the other succeeded and was processed.
C7_Witness ==
    /\ qpc = "place_wait"
    /\ place_calls = PendingPlace
    /\ \E a, b \in DOMAIN cancel_calls :
           /\ cancel_calls[a] = "err"
           /\ cancel_calls[b] = "ok"
           /\ orders[b].status = "cancelled"

\* C8: immediate_cleanup, whether cancel_all_orders returned or raised, leaves
\* both quote slots null and every order that was active marked cancelled.
C8_CleanupRegardless ==
    [][CleanupRuns
          => /\ current_orders' = ClearedSlots
             /\ \A id \in get_active_orders(orders) :
                    orders'[id].status = "cancelled"]_vars

\* C9: no private-feed update for a newly placed order is lost: when the
\* feed has delivered the venue's event for a just-placed order before the
\* cycle registers it, the order keeps the status the feed reported.
C9_NoLostFeedUpdate ==
    [][PlaceResumes
          => \A s \in Sides :
                 (/\ place_calls[s].st = "ok"
                  /\ place_calls[s].id \in DOMAIN orders)
                     => orders'[place_calls[s].id].status
                            = orders[place_calls[s].id].status]_vars

\* C10: a cycle that starts while get_fair_price is None is a no-op: no
\* cancel_order or place_order call is issued, and the quote slots and the
\* account state are unchanged.
C10_NoPriceNoOp ==
    [][(CycleStarts /\ get_fair_price = NoPrice)
          => /\ qpc' = "idle"
             /\ UNCHANGED <<current_orders, orders, order_history,
                            orders_to_cancel, quote_prices, cancel_calls, place_calls,
                            venue>>]_vars

\* C10 witness: a cycle has run without a fair price while the account state
\* holds an active order.
C10_Witness ==
    /\ cycles > 0
    /\ qpc = "idle"
    /\ get_fair_price = NoPrice
    /\ get_active_orders(orders) # {}

\* C11: no failure inside a quoting cycle ends the quoting loop: a failed
\* price computation or place phase leaves trading_loop between cycles, ready
\* to start the next one at the price check, a failed cancel_order lets the
\* cycle go on to its place phase, and the loop ends only once shutdown_event
\* is set.
C11_FailureKeepsLoop ==
    [][/\ PriceFails => qpc' = "idle"
       /\ CancelFails => qpc' = "place_wait"
       /\ PlaceFails => qpc' = "idle"
       /\ qpc' \notin {"idle", "cancel_wait", "place_wait"}
              => (qpc' = "done" /\ shutdown_event)]_vars

\* C11 witness: with shutdown_event unset, a new cycle is placing while a
\* place_order thread of an earlier cycle, whose gather raised, is still in
\* flight.
C11_Witness ==
    /\ ~shutdown_event
    /\ qpc = "place_wait"
    /\ place_calls = PendingPlace
    /\ orphans # {}

\* C12: within one quoting cycle, every cancel_order request of the cancel
\* phase has completed, successfully or not, before either place_order request
\* of the place phase is issued.
C12_CancelsDoneBeforePlace ==
    (\E s \in Sides : place_calls[s].st # "idle")
        => \A id \in DOMAIN cancel_calls : cancel_calls[id] # "pending"

\* C12 witness: a place_order request of a cycle has been answered after a
\* cancel phase with two cancel_order requests, both completed.
C12_Witness ==
    /\ qpc = "place_wait"
    /\ Len(orders_to_cancel) = 2
    /\ \A id \in DOMAIN cancel_calls : cancel_calls[id] \in {"ok", "err"}
    /\ \E s \in Sides : place_calls[s].st = "ok"

\* C13: after any sequence of updates, get_active_orders holds exactly the
\* orders whose status is none of filled, cancelled, rejected, inactive, and
\* get_filled_orders holds exactly the orders whose status is filled.
C13_ActiveAndFilledViews ==
    /\ \A id \in DOMAIN orders :
           id \in get_active_orders(orders)
               <=> orders[id].status
                       \notin {"filled", "cancelled", "rejected", "inactive"}
    /\ \A id \in DOMAIN orders :
           id \in get_filled_orders(orders) <=> orders[id].status = "filled"
    /\ get_active_orders(orders) \cup get_filled_orders(orders) \subseteq DOMAIN orders

\* C13 witness: the account state holds a filled order, an order in another
\* terminal status and an order that is not terminal.
C13_Witness ==
    \E a, b, c \in DOMAIN orders :
        /\ orders[a].status = "filled"
        /\ orders[b].status \in {"cancelled", "rejected", "inactive"}
        /\ orders[c].status \in {"pendingsubmit", "submitted", "partiallyfilled", None}
        /\ c \in get_active_orders(orders)
        /\ get_filled_orders(orders) = {a}

\* C14: is_order_active(id) is False when id is not a key of the order map or
\* the order's status is filled, cancelled, rejected or inactive, and True
\* for every known order with any other status.
C14_IsOrderActive ==
    \A id \in AcctIds \cup {NoOrder} :
        is_order_active(orders, id)
            <=> /\ id \in DOMAIN orders
                /\ orders[id].status
                       \notin {"filled", "cancelled", "rejected", "inactive"}

\* C14 witness: one order id is unknown, one is known and terminal, one is
\* known and not terminal; is_order_active is True for the last only.
C14_Witness ==
    \E a, b, c \in AcctIds :
        /\ a \notin DOMAIN orders
        /\ b \in DOMAIN orders /\ orders[b].status \in terminal_states
        /\ c \in DOMAIN orders /\ orders[c].status \notin terminal_states
        /\ ~is_order_active(orders, a)
        /\ ~is_order_active(orders, b)
        /\ is_order_active(orders, c)

\* C15: the order history never holds more than 1000 entries after an
\* update_order; it holds the latest appends in their order, the oldest being
\* dropped first, so that after 1001 appends the first entry is gone and the
\* 1001st is the last one.
C15_HistoryBounded ==
    LET n == Cardinality(DOMAIN orders) IN
        /\ Len(order_history) <= 1000
        /\ Len(order_history) = IF n < 1000 THEN n ELSE 1000
        /\ \A i \in DOMAIN order_history :
               order_history[i].orderId = n - Len(order_history) + i

\* C15 witness: 1001 entries have been appended; the history holds 1000, the
\* last is the 1001st and the first is absent.
C15_Witness ==
    /\ Cardinality(DOMAIN orders) = 1001
    /\ Len(order_history) = 1000
    /\ order_history[1000].orderId = 1001
    /\ \A i \in DOMAIN order_history : order_history[i].orderId # 1

\* C16: the order map is append/overwrite-only: no step of the bootstrap,
\* the private feed, a quoting cycle or the emergency cleanup removes a key.
C16_OrderNeverRemoved ==
    [][DOMAIN orders \subseteq DOMAIN orders']_vars

\* C16 witness: the bootstrap has loaded an order, the feed has delivered an
\* update, a cycle has registered its two orders and the emergency cleanup
\* has run; all the orders are still in the map.
C16_Witness ==
    /\ is_initialized
    /\ epc = "cleaned"
    /\ feedCount > 0
    /\ Len(order_history) >= 4
    /\ Cardinality(DOMAIN orders) >= 3
    /\ \A i \in DOMAIN order_history : order_history[i].orderId \in DOMAIN orders

\* C17: get_fair_price returns None whenever the bid or the ask of PAXGUSDT
\* or BTCUSDT is None in the price store, and otherwise returns
\* ((bidA + askA) / 2) / ((bidB + askB) / 2) of the current entries.
C17_FairPriceOfMids ==
    IF \E s \in PRICE_SYMBOLS : prices[s].bid = NoPrice \/ prices[s].ask = NoPrice
    THEN get_fair_price = NoPrice
    ELSE LET fp == get_fair_price
             sumA == prices["PAXGUSDT"].bid[1] + prices["PAXGUSDT"].ask[1]
             sumB == prices["BTCUSDT"].bid[1] + prices["BTCUSDT"].ask[1]
         IN  /\ Len(fp) = 2
             /\ fp[2] > 0
             /\ fp[1] * sumB = fp[2] * sumA

\* the quoted price q is the multiple of the tick size nearest to x, the even
\* multiple if x lies half-way between two
NearestTick(q, x) ==
    LET k == in_ticks(q)
        t == in_ticks(x)
        d == k[1] * t[2] - t[1]
    IN  /\ k[2] = 1
        /\ 2 * d <= t[2]
        /\ 2 * d >= 0 - t[2]
        /\ (2 * d = t[2] \/ 2 * d = 0 - t[2]) => k[1] % 2 = 0

\* the fraction a is less than the fraction b
Less(a, b) == a[1] * b[2] < b[1] * a[2]

\* C18: for a positive fair price, calculate_bid_ask_prices computes
\* bid = fair - fair * 20 / 20000 and ask = fair + fair * 20 / 20000, with
\* bid < fair < ask, and rounds each to the nearest multiple of the tick size,
\* ties going to the even multiple; the results are exact multiples of the
\* tick size with bid <= ask.
C18_QuoteRounding ==
    [][(CycleStarts /\ fair_price_ok(get_fair_price))
          => LET fp == get_fair_price
                 b == raw_bid_price(fp)
                 a == raw_ask_price(fp)
             IN  /\ b = fraction(fp[1] * (20000 - 20), fp[2] * 20000)
                 /\ a = fraction(fp[1] * (20000 + 20), fp[2] * 20000)
                 /\ Less(b, fp) /\ Less(fp, a)
                 /\ quote_prices' # NoQuote
                 /\ NearestTick(quote_prices'[1], b)
                 /\ NearestTick(quote_prices'[2], a)
                 /\ in_ticks(quote_prices'[1])[1] <= in_ticks(quote_prices'[2])[1]]_vars

\* C18 witness: a cycle has computed its prices from a fair price whose bid
\* lies exactly half-way between two ticks.
C18_Witness ==
    /\ qpc = "place_wait"
    /\ quote_prices = calculate_bid_ask_prices(get_fair_price)
    /\ in_ticks(raw_bid_price(get_fair_price))[2] = 2
    /\ in_ticks(quote_prices[1])[1] % 2 = 0
    /\ in_ticks(quote_prices[1])[1] < in_ticks(quote_prices[2])[1]

\* C19: if the REST bootstrap fails (get_orders raises), initialize returns
\* normally: run() goes on to start its tasks (the price feed, the private
\* feed, the trading loop and the emergency monitor stand at their first
\* await) and the account state is empty.
C19_BootstrapFailureNotFatal ==
    [][(mpc = "init" /\ mpc' # "init" /\ ~is_initialized')
          => /\ mpc' = "run"
             /\ fpc' \in {"recv", "done"}
             /\ qpc' = "idle"
             /\ epc' = "wait"
             /\ orders' = <<>>
             /\ order_history' = <<>>]_vars

\* C19 witness: the bootstrap has failed while the venue holds a live order,
\* and a quoting cycle has run since.
C19_Witness ==
    /\ mpc = "run"
    /\ ~is_initialized
    /\ venue # <<>>
    /\ venue[1].by = "restart"
    /\ cycles > 0
    /\ fpc = "recv"

\* C20: every order the REST bootstrap returns with a non-terminal status is
\* in the account state when initialize returns, hence before the first
\* cycle, and is active there; and a cycle that reaches its cancel phase
\* issues a cancellation for every bootstrapped order that is still active.
C20_BootstrapOrdersCancellable ==
    [][/\ (mpc = "init" /\ is_initialized')
            => \A id \in DOMAIN venue :
                   venue[id].st = "live"
                       => id \in DOMAIN orders' /\ is_order_active(orders', id)
       /\ (CycleStarts /\ is_initialized /\ fair_price_ok(get_fair_price))
            => \A id \in DOMAIN orders :
                   (venue[id].by = "restart" /\ is_order_active(orders, id))
                       => id \in DOMAIN cancel_calls']_vars

\* the step in which position_polling_loop makes a poll
PollRuns == polls' = polls + 1

\* the reply of the venue to the poll just made
LastReply == gateway_log[1].reply

\* the sum of the sizes of the legs of the reply with the given side
RECURSIVE SideSum(_, _)
SideSum(legs, side) ==
    IF legs = <<>> THEN 0
    ELSE SideSum(Tail(legs), side)
             + (IF Head(legs).side = side THEN Head(legs).size[1] ELSE 0)

\* C24: after each successful position poll the snapshot's signed size is
\* the sum of the sizes of the long legs of that poll's response minus the
\* sum of the sizes of its short legs, whatever the snapshot held before.
C24_PositionFromLastPoll ==
    [][(PollRuns /\ ~update_fails(LastReply'))
          => LET legs == positions_of(LastReply'.body)
             IN  current_position'.position
                     = SideSum(legs, "long") - SideSum(legs, "short")]_vars

\* C24 witness: a poll after the first has set the snapshot to the signed
\* sum of a response with a long and a short leg.
C24_Witness ==
    /\ polls > 1
    /\ gateway_log # <<>>
    /\ ~update_fails(LastReply)
    /\ LET legs == positions_of(LastReply.body)
       IN  /\ \E i \in DOMAIN legs : legs[i].side = "long"
           /\ \E i \in DOMAIN legs : legs[i].side = "short"
           /\ current_position.position = 1

\* C25: when a position poll's listPositions call fails with a transport
\* error, the polling loop takes the 10-second backoff sleep before its next
\* poll, not the short polling wait.
C25_BackoffOnTransportFailure ==
    [][(PollRuns /\ LastReply' = Unreachable) => ppc' = "backoff"]_vars

\* the step in which the public feed's connection fails or is closed
FeedConnectionFault ==
    wfaults' = wfaults + 1 /\ (wpc = "connect" \/ wpc' # "pause")

\* C28: BinanceWebSocketClient.start returns only when shutdown_event is set:
\* on a connection error or closure with the signal unset it sleeps the
\* backoff and then reconnects, never letting the error out; with the signal
\* set it ends without connecting again.
C28_FeedRunsUntilShutdown ==
    [][/\ wpc' = "done" => shutdown_event'
       /\ wpc' # "crashed"
       /\ (FeedConnectionFault /\ ~shutdown_event) => wpc' = "backoff"
       /\ (FeedConnectionFault /\ shutdown_event) => wpc' = "done"
       /\ (wpc = "backoff" /\ wpc' # "backoff")
              => wpc' = IF shutdown_event THEN "done" ELSE "connect"
       /\ (shutdown_event /\ wpc # "connect") => wpc' # "connect"]_vars

\* C28 witness: the connection has failed twice with the signal unset, the
\* feed has come back and delivered both prices, and after the signal it has
\* ended.
C28_Witness ==
    /\ wfaults = 2
    /\ has_data(PRICE_SYMBOLS)
    /\ shutdown_event
    /\ wpc = "done"

\* the step in which the private feed handles a message
MessageHandled == feedCount' = feedCount + 1 /\ dispatch_log' # <<>>

C27_BadMessageKeepsStream ==
    [][MessageHandled
          => /\ fpc' = IF shutdown_event THEN "done" ELSE "recv"
             /\ dispatch_raises(dispatch_log'[1].msg)
                    => UNCHANGED <<orders, order_history>>]_vars

\* C27 witness: after a message whose handling raised, the next message, an
\* order update, has been applied on the same connection, and it is the only
\* update the account state has seen.
C27_Witness ==
    /\ feedCount > 1
    /\ fpc = "recv"
    /\ Len(dispatch_log) = 2
    /\ IsOrderUpdate(dispatch_log[1].msg)
    /\ dispatch_raises(dispatch_log[2].msg)
    /\ Len(order_history) = 1
    /\ DOMAIN orders = {dispatch_log[1].msg.data[1].orderId}

\* the venue rejected the call of the log entry: it answered with an error body
VenueRejected(e) == e.reply.kind = "http" /\ e.reply.body = ErrorBody

\* the call of the log entry failed in transport: no answer came
TransportFailed(e) == e.reply = Unreachable

\* C29: every gateway call surfaces failures so that the caller can tell a
\* venue rejection from a transport failure: the two give outcomes of
\* different shape, and an error body of the venue is never handed to the
\* caller as the result of a successful call.
C29_FailuresDistinguishable ==
    /\ \A i, j \in DOMAIN gateway_log :
           (TransportFailed(gateway_log[i]) /\ VenueRejected(gateway_log[j]))
               => outcome_shape(gateway_log[i].outcome)
                      # outcome_shape(gateway_log[j].outcome)
    /\ \A i \in DOMAIN gateway_log :
           VenueRejected(gateway_log[i]) => gateway_log[i].outcome.kind = "raise"

\* C30: when the venue rejects a cancel or a place request, the local state
\* is left as if the operation did not happen: a rejected cancel leaves the
\* order's local status unchanged, and a rejected placement registers no new
\* order and leaves that side's quote slot unchanged.
C30_RejectionLeavesState ==
    [][/\ CancelResumes
            => \A id \in DOMAIN cancel_calls :
                   (cancel_calls[id] \in {"err", "refused"} /\ id \in DOMAIN orders)
                       => orders'[id].status = orders[id].status
       /\ PlaceResumes
            => /\ \A s \in Sides :
                      place_calls[s].st \in {"err", "bad"}
                          => current_orders'[s] = current_orders[s]
               /\ DOMAIN orders' \ DOMAIN orders
                      \subseteq {place_calls[s].id : s \in {x \in Sides : place_calls[x].st = "ok"}}]_vars

\* C22: once the graceful shutdown signal is set, trading_loop starts no
\* further quoting cycle, and a cycle already in flight runs to completion:
\* it goes on through its phases and the loop ends only from its wait between
\* cycles.
C22_ExitAfterCurrentCycle ==
    [][shutdown_event
           => /\ cycles' = cycles
              /\ (qpc' = "done" /\ qpc # "done") => qpc = "idle"
              /\ (qpc \in {"cancel_wait", "place_wait"} /\ qpc' # qpc)
                     => qpc' \in {"place_wait", "idle"}]_vars

\* C22 witness: the graceful shutdown signal is set while a cycle is in
\* flight, its cancel phase done and its place requests issued.
C22_Witness ==
    /\ shutdown_event
    /\ qpc = "place_wait"
    /\ orders_to_cancel # <<>>
    /\ cycles > 1

Drained == wpc = "done" /\ fpc = "done" /\ qpc = "done" /\ ppc = "done"

\* C21: once the graceful shutdown signal is set, and every pending receive
\* and gateway call eventually returns, the public price stream task, the
\* private order stream task, the quoting loop and the position-polling loop
\* each eventually terminate.
C21_GracefulDrain == shutdown_event ~> Drained

\* C21 witness: all four tasks have ended after the signal, each after having
\* done work: a quoting cycle, a poll, a private message and a reconnect of
\* the public feed.
C21_Witness ==
    /\ shutdown_event
    /\ Drained
    /\ cycles > 0
    /\ polls > 0
    /\ feedCount > 0
    /\ wfaults > 0

\* C31: update_order on an unknown or non-terminal order replaces the order's
\* fields wholesale from the event (a field the event lacks becomes None
\* whatever the order held) and appends exactly one history entry, whose
\* previousStatus is the order's status just before the update ('unknown'
\* for an order seen for the first time) and whose newStatus is the event's
\* status; every other order and every earlier history entry stay as they
\* were.
C31_WholesaleReplace ==
    [][\A ev \in UpdateEvents :
          (/\ ApplyEvent(ev)
           /\ ev.orderId # NoOrder
           /\ ev.orderId \in DOMAIN orders => orders[ev.orderId].status \notin terminal_states)
          => /\ DOMAIN orders' = DOMAIN orders \cup {ev.orderId}
             /\ orders'[ev.orderId].status = ev.status
             /\ orders'[ev.orderId].remainingQty = ev.remainingQty
             /\ orders'[ev.orderId].executedQty = ev.executedQty
             /\ orders'[ev.orderId].avgPx = ev.avgPx
             /\ \A x \in DOMAIN orders \ {ev.orderId} : orders'[x] = orders[x]
             /\ Len(order_history') = Len(order_history) + 1
             /\ SubSeq(order_history', 1, Len(order_history)) = order_history
             /\ order_history'[Len(order_history')] =
                    [orderId |-> ev.orderId,
                     previousStatus |-> IF ev.orderId \in DOMAIN orders
                                        THEN orders[ev.orderId].status
                                        ELSE "unknown",
                     newStatus |-> ev.status]]_vars

\* C31 witness: order 1 was stored as submitted and then updated by an event
\* that lacks executedQty and avgPx, which are now None.
C31_Witness ==
    /\ Len(order_history) = 2
    /\ order_history[1] = [orderId |-> 1, previousStatus |-> "unknown", newStatus |-> "submitted"]
    /\ order_history[2].orderId = 1
    /\ order_history[2].previousStatus = "submitted"
    /\ orders[1].executedQty = None
    /\ orders[1].avgPx = None

\* C32: every change of an order's status is recorded in the history: of any
\* two consecutive history entries of the same order, the later one's
\* previousStatus is the earlier one's newStatus, in every interleaving of
\* feed updates, quoting cycles and emergency cleanup.
C32_HistoryChained ==
    \A i, j \in DOMAIN order_history :
        (/\ i < j
         /\ order_history[i].orderId = order_history[j].orderId
         /\ \A k \in (i + 1)..(j - 1) :
                order_history[k].orderId # order_history[i].orderId)
        => order_history[j].previousStatus = order_history[i].newStatus

\* C33: the cancel-result handling of a quoting cycle never overwrites a
\* terminal status: an order that the private feed has marked filled (or
\* rejected, or inactive) while its cancel_order request was in flight still
\* has that status after the cancel results are processed.
C33_CancelKeepsTerminal ==
    [][CancelResumes
           => \A id \in DOMAIN cancel_calls :
                  (id \in DOMAIN orders /\ orders[id].status \in terminal_states)
                      => orders'[id].status = orders[id].status]_vars

\* the step in which a quoting cycle that reached its cancel or place phase
\* completes
CycleCompletes == qpc \in {"cancel_wait", "place_wait"} /\ qpc' = "idle"

\* the orders placed by the coordinator that are active in the account state
ActivePlaced ==
    {id \in DOMAIN orders :
        /\ id \in DOMAIN venue
        /\ venue[id].by = "coordinator"
        /\ is_order_active(orders, id)}

\* C34: no active order loses its slot reference: when a quoting cycle
\* completes (a cycle with a failed cancel_order included), every order
\* placed by the coordinator that is still active in the account state is
\* referenced by the bid or the ask slot, so at most two such orders are
\* active.
C34_ActiveOrdersInSlots ==
    [][CycleCompletes
           => /\ ActivePlaced' \subseteq {current_orders'.bid_id, current_orders'.ask_id}
              /\ Cardinality(ActivePlaced') <= 2]_vars

\* C35: whenever the coordinator yields control, every quote slot that holds
\* an order id holds a key of the account state's order map: a placed id is
\* written to its slot and registered with no suspension point in between.
C35_SlotIdsRegistered ==
    \A s \in Sides :
        current_orders[s] # NoOrder => current_orders[s] \in DOMAIN orders

\* C35 witness: a cycle has ended in which the bid was recorded and the ask
\* response lacked its order id; the bid slot holds the registered bid.
C35_Witness ==
    /\ qpc = "idle"
    /\ current_orders.bid_id # NoOrder
    /\ current_orders.ask_id = NoOrder
    /\ current_orders.bid_id \in DOMAIN orders

\* C36: immediate_cleanup changes only active orders: every order whose
\* status is terminal when it runs keeps its status and all other fields, and
\* no order is added to or removed from the order map.
C36_CleanupKeepsTerminal ==
    [][CleanupRuns
           => /\ DOMAIN orders' = DOMAIN orders
              /\ \A id \in DOMAIN orders :
                     orders[id].status \in terminal_states => orders'[id] = orders[id]]_vars

\* C36 witness: the cleanup has run on an order map that holds a filled
\* order, reported by the private feed, next to an order it marked cancelled.
C36_Witness ==
    /\ epc = "cleaned"
    /\ feedCount = 1
    /\ fpc = "recv"
    /\ \E id \in DOMAIN orders : orders[id].status = "filled"
    /\ \E id \in DOMAIN orders :
           /\ orders[id].status = "cancelled"
           /\ \A i \in DOMAIN order_history :
                  order_history[i].orderId = id => order_history[i].newStatus # "cancelled"

\* the poll's listPositions call raised, or a leg of its response has a size
\* that cannot be parsed
PollFailed(reply) ==
    \/ reply.kind = "unreachable"
    \/ reply.status >= 400
    \/ \E i \in DOMAIN positions_of(reply.body) :
           positions_of(reply.body)[i].size = <<>>

\* C37: a failed position poll (listPositions raises, or a leg's size cannot
\* be parsed) leaves the position snapshot exactly as it was: signed size,
\* fill count and last-updated are all unchanged, never partially updated.
C37_FailedPollKeepsSnapshot ==
    [][(PollRuns /\ PollFailed(LastReply')) => current_position' = current_position]_vars

\* C37 witness: after a successful first poll, a second poll failed on the
\* unparsable size of its second leg, its first leg being a long one; the
\* snapshot is still the one the first poll wrote.
C37_Witness ==
    /\ polls = 2
    /\ gateway_log # <<>>
    /\ LastReply.kind = "http"
    /\ LastReply.status = 200
    /\ LET legs == positions_of(LastReply.body)
       IN  /\ Len(legs) = 2
           /\ legs[1] = [side |-> "long", size |-> <<1>>]
           /\ legs[2].size = <<>>
    /\ current_position = [position |-> 2, total_fills |-> 1, last_updated |-> 1]

====
